---- MODULE Spec2Model ----
(***************************************************************************)
(* A model of sim.py: a trace-driven simulator of one shared               *)
(* set-associative cache under a simplified MESI protocol, with a          *)
(* false-sharing detector and an optional invalidation-suppressing fix-up. *)
(*                                                                         *)
(* The state is the Cache object (lines, repl_idx), the statistics         *)
(* mapping, the Logger and the position of run_trace.  One step of the     *)
(* model is one iteration of the loop of run_trace, i.e. one line of the   *)
(* trace file, including the whole call of Cache.access it makes.          *)
(*                                                                         *)
(* rec and hist are history variables: the last call of Cache.access and   *)
(* the shape of the trace read so far.                                     *)
(*                                                                         *)
(* Not modelled: the derived floating-point statistics ipki and ipc_proxy, *)
(* the contents of the rows of the suspect log (only their number), a run  *)
(* without --log, and the command line.  A blank line or comment leaves    *)
(* the state as it is.                                                     *)
(***************************************************************************)
EXTENDS Integers, Sequences, FiniteSets, TLC

\* ------------------------------------------------------------------ bounds
\* number of records dispatched to Cache.access in one run with a small
\* geometry
MaxInstr == 3
\* the same, in a run with the default geometry (64 sets of 8 ways)
MaxInstrDefault == 2
\* the same, in a run of two cores on the two words of a single line
MaxInstrLong == 6
\* values of --fs-threshold: 1..MaxThreshold
MaxThreshold == 2

\* --------------------------------------------------------------- constants
INVALID == "I"
SHARED == "S"
EXCLUSIVE == "E"
MODIFIED == "M"

\* Python's None in CacheLine.owner (Optional[int]); distinct from every
\* core id and from the -1 of last_writer_core
None == -2

\* CacheLine(): the field defaults of the dataclass
CacheLine ==
  [tag |-> -1, state |-> INVALID, owner |-> None, sharers |-> {},
   last_writer_core |-> -1, last_word |-> 0, fs_conf |-> 0,
   fs_suspect |-> FALSE]

\* the geometry (line_bytes, sets, assoc, word_bytes) of Config's defaults
DefaultGeometry ==
  [line_bytes |-> 64, sets |-> 64, assoc |-> 8, word_bytes |-> 4]

\* two small geometries, of two words a line: a single line, for which any
\* two line addresses contend, and one set of two ways
SmallGeometries ==
  { [line_bytes |-> 8, sets |-> 1, assoc |-> 1, word_bytes |-> 4],
    [line_bytes |-> 8, sets |-> 1, assoc |-> 2, word_bytes |-> 4] }

\* a cache of a single line of two words, for the long runs of two cores
LongGeometry ==
  [line_bytes |-> 16, sets |-> 1, assoc |-> 1, word_bytes |-> 8]

\* Config(...): geometry, detector threshold, mitigation flag and the default
\* latencies
Config(geom, thr, fix) ==
  [line_bytes |-> geom.line_bytes, sets |-> geom.sets, assoc |-> geom.assoc,
   word_bytes |-> geom.word_bytes, fs_threshold |-> thr,
   false_sharing_fix |-> fix,
   hit_latency |-> 4, miss_latency |-> 40, inv_latency |-> 10]

Configs(geoms) ==
  { Config(g, t, f) : g \in geoms, t \in 1..MaxThreshold, f \in BOOLEAN }

\* the number of records of the traces of a run with configuration c
TraceBound(c) ==
  IF c.sets = DefaultGeometry.sets THEN MaxInstrDefault
  ELSE IF c.line_bytes = LongGeometry.line_bytes THEN MaxInstrLong
  ELSE MaxInstr

\* the cores that appear in the trace
Cores == {0, 1, 2}

\* the addresses that appear in the trace of a run with configuration c:
\* the first two words of line address 0 and the first word of line address 1
\* (0x0, 0x4 and 0x40 with the default geometry)
Addrs(c) == {0, c.word_bytes, c.line_bytes}

Min(a, b) == IF a < b THEN a ELSE b
Max(a, b) == IF a > b THEN a ELSE b

\* ------------------------------------------------------------------- Cache
\* Cache._index_tag: (set index, tag)
index_tag(c, addr) ==
  LET line_addr == addr \div c.line_bytes
  IN  <<line_addr % c.sets, line_addr>>

\* Cache._word_idx
word_idx_of(c, addr) ==
  (addr \div c.word_bytes) % (c.line_bytes \div c.word_bytes)

\* the ways of set idx that hold tag in a valid state
HitWays(L, c, idx, tag) ==
  { w \in 0..(c.assoc - 1) : L[idx][w].tag = tag /\ L[idx][w].state # INVALID }

\* probe with a slip: the cursor of the set advances on a hit too
probe_always_advance(L, R, c, addr) ==
  LET idx == index_tag(c, addr)[1]
      tag == index_tag(c, addr)[2]
      hw  == HitWays(L, c, idx, tag)
      adv == [R EXCEPT ![idx] = (R[idx] + 1) % c.assoc]
  IN  IF hw # {}
      THEN [lines |-> L, repl_idx |-> adv, idx |-> idx,
            way |-> CHOOSE w \in hw : \A v \in hw : w <= v, hit |-> TRUE]
      ELSE LET way == R[idx]
               repl == [L[idx][way] EXCEPT !.tag = tag, !.state = INVALID,
                                           !.owner = None, !.sharers = {}]
           IN  [lines |-> [L EXCEPT ![idx][way] = repl],
                repl_idx |-> adv,
                idx |-> idx, way |-> way, hit |-> FALSE]

\* probe with a slip: the replacement of the victim also clears fs_suspect
probe_forget_suspect(L, R, c, addr) ==
  LET idx == index_tag(c, addr)[1]
      tag == index_tag(c, addr)[2]
      hw  == HitWays(L, c, idx, tag)
  IN  IF hw # {}
      THEN [lines |-> L, repl_idx |-> R, idx |-> idx,
            way |-> CHOOSE w \in hw : \A v \in hw : w <= v, hit |-> TRUE]
      ELSE LET way == R[idx]
               repl == [L[idx][way] EXCEPT !.tag = tag, !.state = INVALID,
                                           !.owner = None, !.sharers = {},
                                           !.fs_suspect = FALSE]
           IN  [lines |-> [L EXCEPT ![idx][way] = repl],
                repl_idx |-> [R EXCEPT ![idx] = (R[idx] + 1) % c.assoc],
                idx |-> idx, way |-> way, hit |-> FALSE]

\* probe with a slip: a miss advances the cursor of every set
probe_all_cursors(L, R, c, addr) ==
  LET idx == index_tag(c, addr)[1]
      tag == index_tag(c, addr)[2]
      hw  == HitWays(L, c, idx, tag)
  IN  IF hw # {}
      THEN [lines |-> L, repl_idx |-> R, idx |-> idx,
            way |-> CHOOSE w \in hw : \A v \in hw : w <= v, hit |-> TRUE]
      ELSE LET way == R[idx]
               repl == [L[idx][way] EXCEPT !.tag = tag, !.state = INVALID,
                                           !.owner = None, !.sharers = {}]
           IN  [lines |-> [L EXCEPT ![idx][way] = repl],
                repl_idx |-> [i \in DOMAIN R |-> (R[i] + 1) % c.assoc],
                idx |-> idx, way |-> way, hit |-> FALSE]

\* Cache.probe: the first matching valid way of the set is a hit and nothing
\* changes; otherwise the way under the set's cursor is the victim, the
\* cursor advances and the victim's tag/state/owner/sharers are reset (the
\* detector fields are left as they are).
probe(L, R, c, addr) ==
  LET idx == index_tag(c, addr)[1]
      tag == index_tag(c, addr)[2]
      hw  == HitWays(L, c, idx, tag)
  IN  IF hw # {}
      THEN [lines |-> L, repl_idx |-> R, idx |-> idx,
            way |-> CHOOSE w \in hw : \A v \in hw : w <= v, hit |-> TRUE]
      ELSE LET way == R[idx]
               repl == [L[idx][way] EXCEPT !.tag = tag, !.state = INVALID,
                                           !.owner = None, !.sharers = {}]
           IN  [lines |-> [L EXCEPT ![idx][way] = repl],
                repl_idx |-> [R EXCEPT ![idx] = (R[idx] + 1) % c.assoc],
                idx |-> idx, way |-> way, hit |-> FALSE]

\* Logger.log_suspect: a row is written, and event_id advances, only when the
\* logger has a writer
log_suspect(lg) ==
  IF lg.writer THEN [lg EXCEPT !.event_id = @ + 1] ELSE lg

\* _maybe_detect with a slip: fs_conf is incremented without the cap of 3
maybe_detect_no_cap(x, c, core, word_idx) ==
  LET line == x.line IN
  IF line.state = INVALID THEN x
  ELSE IF /\ line.last_writer_core # -1
          /\ line.last_writer_core # core
          /\ line.last_word # word_idx
  THEN LET conf  == line.fs_conf + 1
           latch == conf >= c.fs_threshold /\ ~line.fs_suspect
       IN  [line |-> [line EXCEPT !.fs_conf = conf,
                                  !.fs_suspect = (@ \/ latch)],
            stats |-> [x.stats EXCEPT
                         !.suspect_lines = IF latch THEN @ + 1 ELSE @,
                         !.suspect_events = @ + 1],
            logger |-> log_suspect(x.logger),
            detect |-> TRUE,
            charged |-> x.charged]
  ELSE [x EXCEPT !.line.fs_conf = Max(@ - 1, 0), !.detect = TRUE]

\* _maybe_detect with a slip: suspect_lines is counted whenever fs_conf is at
\* or above the threshold, also on a line that is suspect already
maybe_detect_recount(x, c, core, word_idx) ==
  LET line == x.line IN
  IF line.state = INVALID THEN x
  ELSE IF /\ line.last_writer_core # -1
          /\ line.last_writer_core # core
          /\ line.last_word # word_idx
  THEN LET conf  == Min(line.fs_conf + 1, 3)
           latch == conf >= c.fs_threshold
       IN  [line |-> [line EXCEPT !.fs_conf = conf,
                                  !.fs_suspect = (@ \/ latch)],
            stats |-> [x.stats EXCEPT
                         !.suspect_lines = IF latch THEN @ + 1 ELSE @,
                         !.suspect_events = @ + 1],
            logger |-> log_suspect(x.logger),
            detect |-> TRUE,
            charged |-> x.charged]
  ELSE [x EXCEPT !.line.fs_conf = Max(@ - 1, 0), !.detect = TRUE]

\* Cache._maybe_detect on the context x = [line, stats, logger, detect,
\* charged]; x.detect records that the detector got past its test for an
\* Invalid line, x.charged that access took a branch that charges an
\* invalidation
maybe_detect(x, c, core, word_idx) ==
  LET line == x.line IN
  IF line.state = INVALID THEN x
  ELSE IF /\ line.last_writer_core # -1
          /\ line.last_writer_core # core
          /\ line.last_word # word_idx
  THEN LET conf  == Min(line.fs_conf + 1, 3)
           latch == conf >= c.fs_threshold /\ ~line.fs_suspect
       IN  [line |-> [line EXCEPT !.fs_conf = conf,
                                  !.fs_suspect = (@ \/ latch)],
            stats |-> [x.stats EXCEPT
                         !.suspect_lines = IF latch THEN @ + 1 ELSE @,
                         !.suspect_events = @ + 1],
            logger |-> log_suspect(x.logger),
            detect |-> TRUE,
            charged |-> x.charged]
  ELSE [x EXCEPT !.line.fs_conf = Max(@ - 1, 0), !.detect = TRUE]

\* the suppression test with a slip: the mitigation flag is not looked at
Suppressed_no_flag(line, c, word_idx) ==
  line.fs_suspect /\ line.last_word # word_idx

\* the condition under which the fix-up suppresses an invalidation
\* (the negation of the `if not (...)` tests of Cache.access)
Suppressed(line, c, word_idx) ==
  line.fs_suspect /\ c.false_sharing_fix /\ line.last_word # word_idx

\* the write hit with a slip: inv_latency is charged once per sharer
\* invalidated
WriteHit_stall_per_sharer(x, c, core, word_idx) ==
  IF x.line.state \in {SHARED, EXCLUSIVE, MODIFIED} /\ x.line.owner # core
  THEN LET d == maybe_detect(x, c, core, word_idx)
           n == Cardinality(d.line.sharers \ {core})
       IN  IF ~Suppressed(d.line, c, word_idx)
           THEN [d EXCEPT !.stats.invalidations = @ + n,
                          !.stats.stall_cycles = @ + n * c.inv_latency,
                          !.charged = TRUE,
                          !.line.sharers = {core},
                          !.line.owner = core,
                          !.line.state = MODIFIED]
           ELSE [d EXCEPT !.stats.avoided_invalidations = @ + n,
                          !.line.owner = core,
                          !.line.state = MODIFIED]
  ELSE [x EXCEPT !.line.owner = core, !.line.state = MODIFIED]

\* the write hit with a slip: the suppression test looks at the line as it
\* was before the detector step
WriteHit_suspect_before(x, c, core, word_idx) ==
  IF x.line.state \in {SHARED, EXCLUSIVE, MODIFIED} /\ x.line.owner # core
  THEN LET d == maybe_detect(x, c, core, word_idx)
           n == Cardinality(d.line.sharers \ {core})
       IN  IF ~Suppressed(x.line, c, word_idx)
           THEN [d EXCEPT !.stats.invalidations = @ + n,
                          !.stats.stall_cycles = @ + c.inv_latency,
                          !.charged = TRUE,
                          !.line.sharers = {core},
                          !.line.owner = core,
                          !.line.state = MODIFIED]
           ELSE [d EXCEPT !.stats.avoided_invalidations = @ + n,
                          !.line.owner = core,
                          !.line.state = MODIFIED]
  ELSE [x EXCEPT !.line.owner = core, !.line.state = MODIFIED]

\* the write hit with a slip: the charged branch does not narrow sharers to
\* the writer
WriteHit_keep_sharers(x, c, core, word_idx) ==
  IF x.line.state \in {SHARED, EXCLUSIVE, MODIFIED} /\ x.line.owner # core
  THEN LET d == maybe_detect(x, c, core, word_idx)
           n == Cardinality(d.line.sharers \ {core})
       IN  IF ~Suppressed(d.line, c, word_idx)
           THEN [d EXCEPT !.stats.invalidations = @ + n,
                          !.stats.stall_cycles = @ + c.inv_latency,
                          !.charged = TRUE,
                          !.line.owner = core,
                          !.line.state = MODIFIED]
           ELSE [d EXCEPT !.stats.avoided_invalidations = @ + n,
                          !.line.owner = core,
                          !.line.state = MODIFIED]
  ELSE [x EXCEPT !.line.owner = core, !.line.state = MODIFIED]

\* Cache.access, write hit
WriteHit(x, c, core, word_idx) ==
  IF x.line.state \in {SHARED, EXCLUSIVE, MODIFIED} /\ x.line.owner # core
  THEN LET d == maybe_detect(x, c, core, word_idx)
           n == Cardinality(d.line.sharers \ {core})
       IN  IF ~Suppressed(d.line, c, word_idx)
           THEN [d EXCEPT !.stats.invalidations = @ + n,
                          !.stats.stall_cycles = @ + c.inv_latency,
                          !.charged = TRUE,
                          !.line.sharers = {core},
                          !.line.owner = core,
                          !.line.state = MODIFIED]
           ELSE [d EXCEPT !.stats.avoided_invalidations = @ + n,
                          !.line.owner = core,
                          !.line.state = MODIFIED]
  ELSE [x EXCEPT !.line.owner = core, !.line.state = MODIFIED]

\* the read hit with a slip: the suppressed branch does not make the reader
\* a sharer
ReadHit_suppressed_no_add(x, c, core, word_idx) ==
  IF x.line.state = MODIFIED /\ x.line.owner # core
  THEN LET d == maybe_detect(x, c, core, word_idx)
       IN  IF ~Suppressed(d.line, c, word_idx)
           THEN [d EXCEPT !.stats.invalidations = @ + 1,
                          !.stats.stall_cycles = @ + c.inv_latency,
                          !.charged = TRUE,
                          !.line.sharers = {core, d.line.owner},
                          !.line.state = SHARED]
           ELSE [d EXCEPT !.stats.avoided_invalidations = @ + 1,
                          !.line.state = SHARED]
  ELSE [x EXCEPT !.line.sharers = @ \cup {core},
                 !.line.state = IF @ = EXCLUSIVE THEN SHARED ELSE @]

\* the read hit with a slip: a Modified line is downgraded whoever owns it
ReadHit_any_owner(x, c, core, word_idx) ==
  IF x.line.state = MODIFIED
  THEN LET d == maybe_detect(x, c, core, word_idx)
       IN  IF ~Suppressed(d.line, c, word_idx)
           THEN [d EXCEPT !.stats.invalidations = @ + 1,
                          !.stats.stall_cycles = @ + c.inv_latency,
                          !.charged = TRUE,
                          !.line.sharers = {core, d.line.owner},
                          !.line.state = SHARED]
           ELSE [d EXCEPT !.stats.avoided_invalidations = @ + 1,
                          !.line.sharers = @ \cup {core},
                          !.line.state = SHARED]
  ELSE [x EXCEPT !.line.sharers = @ \cup {core},
                 !.line.state = IF @ = EXCLUSIVE THEN SHARED ELSE @]

\* Cache.access, read hit
ReadHit(x, c, core, word_idx) ==
  IF x.line.state = MODIFIED /\ x.line.owner # core
  THEN LET d == maybe_detect(x, c, core, word_idx)
       IN  IF ~Suppressed(d.line, c, word_idx)
           THEN [d EXCEPT !.stats.invalidations = @ + 1,
                          !.stats.stall_cycles = @ + c.inv_latency,
                          !.charged = TRUE,
                          !.line.sharers = {core, d.line.owner},
                          !.line.state = SHARED]
           ELSE [d EXCEPT !.stats.avoided_invalidations = @ + 1,
                          !.line.sharers = @ \cup {core},
                          !.line.state = SHARED]
  ELSE [x EXCEPT !.line.sharers = @ \cup {core},
                 !.line.state = IF @ = EXCLUSIVE THEN SHARED ELSE @]

\* Cache.access, miss: the detector is applied to the line probe returned,
\* then the invalidation test, which is the same code for a write and a read
MissCharge(d, c, core, word_idx) ==
  IF d.line.state # INVALID /\ d.line.owner # None /\ d.line.owner # core
  THEN IF ~Suppressed(d.line, c, word_idx)
       THEN [d EXCEPT !.stats.invalidations = @ + 1,
                      !.stats.stall_cycles = @ + c.inv_latency,
                      !.charged = TRUE]
       ELSE [d EXCEPT !.stats.avoided_invalidations = @ + 1]
  ELSE d

\* the miss with a slip: misses is not counted
Miss_not_counted(x, c, core, is_write, word_idx, tag) ==
  LET d == MissCharge(maybe_detect(x, c, core, word_idx), c, core, word_idx)
  IN  [d EXCEPT !.line.owner = core,
                !.line.state = IF is_write THEN MODIFIED ELSE EXCLUSIVE,
                !.line.sharers = {core},
                !.line.tag = tag,
                !.stats.stall_cycles = @ + c.miss_latency]

\* Cache.access, miss: the fill of the line and the miss accounting
Miss(x, c, core, is_write, word_idx, tag) ==
  LET d == MissCharge(maybe_detect(x, c, core, word_idx), c, core, word_idx)
  IN  [d EXCEPT !.line.owner = core,
                !.line.state = IF is_write THEN MODIFIED ELSE EXCLUSIVE,
                !.line.sharers = {core},
                !.line.tag = tag,
                !.stats.misses = @ + 1,
                !.stats.stall_cycles = @ + c.miss_latency]

\* Cache.access, the update of the detector metadata that ends it
UpdateMeta(x, core, is_write, word_idx) ==
  IF is_write \/ x.line.owner = core
  THEN [x EXCEPT !.line.last_writer_core = core, !.line.last_word = word_idx]
  ELSE x

\* Cache.access on the machine m = [lines, repl_idx, stats, logger]; the
\* result also tells whether probe hit, whether the detector ran on a valid
\* line and whether a branch that charges an invalidation was taken
access(m, c, core, is_write, addr) ==
  LET word_idx == word_idx_of(c, addr)
      p == probe(m.lines, m.repl_idx, c, addr)
      x == [line |-> p.lines[p.idx][p.way], stats |-> m.stats,
            logger |-> m.logger, detect |-> FALSE, charged |-> FALSE]
      y == IF p.hit
           THEN LET h == IF is_write THEN WriteHit(x, c, core, word_idx)
                                     ELSE ReadHit(x, c, core, word_idx)
                IN  [h EXCEPT !.stats.hits = @ + 1]
           ELSE Miss(x, c, core, is_write, word_idx, index_tag(c, addr)[2])
      z == UpdateMeta(y, core, is_write, word_idx)
  IN  [lines |-> [p.lines EXCEPT ![p.idx][p.way] = z.line],
       repl_idx |-> p.repl_idx, stats |-> z.stats, logger |-> z.logger,
       hit |-> p.hit, detect |-> z.detect, charged |-> z.charged]

\* --------------------------------------------------------------- trace file
\* A token of a trace line (what str.split returns) is a decimal literal, a
\* 0x-prefixed hexadecimal literal or a word that is not a number.
Dec(n) == [kind |-> "dec", val |-> n, text |-> ""]
Hex(n) == [kind |-> "hex", val |-> n, text |-> ""]
Word(s) == [kind |-> "alpha", val |-> 0, text |-> s]

\* a line of the trace file: a comment (starts with '#') or its tokens
\* (no token: a blank line)
Comment == [comment |-> TRUE, parts |-> <<>>]
Line(parts) == [comment |-> FALSE, parts |-> parts]

\* int(tok) succeeds on decimal literals only; int(tok, 0) also on 0x ones
IntOk(tok) == tok.kind = "dec"
Int0Ok(tok) == tok.kind \in {"dec", "hex"}

\* str.upper on the words of the model
upper(tok) ==
  IF tok.kind # "alpha" THEN tok
  ELSE [tok EXCEPT !.text = CASE @ = "r" -> "R"
                              [] @ = "w" -> "W"
                              [] OTHER -> @]

\* op.startswith("W")
startswithW(tok) == tok.kind = "alpha" /\ tok.text = "W"

\* the lines a trace of a run with configuration c is made of: every
\* well-formed record over Cores and Addrs(c), a blank line, a comment, other
\* spellings of a well-formed record, and malformed records of each kind
TraceLines(c) ==
  { Line(<<Dec(k), Word(o), Hex(a)>>) :
      k \in Cores, o \in {"R", "W"}, a \in Addrs(c) } \cup
  { Comment,
    Line(<<>>),
    Line(<<Dec(0), Word("w"), Dec(0)>>),
    Line(<<Dec(0), Word("W")>>),
    Line(<<Dec(0), Word("W"), Hex(0), Word("R")>>),
    Line(<<Word("x"), Word("W"), Hex(0)>>),
    Line(<<Dec(0), Word("X"), Hex(0)>>),
    Line(<<Dec(0), Word("W"), Word("zz")>>) }

\* the lines of a trace in which cores 0 and 1 read and write the first two
\* words of line address 0
PingPongLines(c) ==
  { Line(<<Dec(k), Word(o), Hex(a)>>) :
      k \in {0, 1}, o \in {"R", "W"}, a \in {0, c.word_bytes} }

\* run_trace, the test that skips blank lines and comments
Skipped(line) == line.parts = <<>> \/ line.comment

\* run_trace, the statements that parse a line that is not skipped: they
\* raise IndexError or ValueError (status "error") or yield the arguments of
\* Cache.access.  Tokens after the third are never looked at.
Parse(line) ==
  LET parts == line.parts IN
  IF ~IntOk(parts[1]) THEN [status |-> "error"]
  ELSE IF Len(parts) < 2 THEN [status |-> "error"]
  ELSE IF Len(parts) < 3 THEN [status |-> "error"]
  ELSE IF ~Int0Ok(parts[3]) THEN [status |-> "error"]
  ELSE [status |-> "ok", core |-> parts[1].val,
        is_write |-> startswithW(upper(parts[2])), addr |-> parts[3].val]

\* ---------------------------------------------------------------- the run
VARIABLES
  cfg,        \* the Config of the run
  lines,      \* Cache.lines: set index -> way -> CacheLine
  repl_idx,   \* Cache.repl_idx: set index -> replacement cursor
  stats,      \* the statistics of run_trace
  logger,     \* the Logger: writer present, event_id, calls of close so far
  pc,         \* where run_trace is: "open", "loop", "done", "aborted"
  rec,        \* the last call of Cache.access: its arguments and what it did
              \* (probe hit, the detector ran on a valid line, a charging
              \* branch was taken)
  hist        \* history of the records dispatched to Cache.access so far

vars == <<cfg, lines, repl_idx, stats, logger, pc, rec, hist>>

\* the record <<core, is_write, addr>> of an access; <<>> when there is none
NoAccess == <<>>

\* Cache(cfg)
NewLines(c) == [i \in 0..(c.sets - 1) |-> [w \in 0..(c.assoc - 1) |-> CacheLine]]
NewReplIdx(c) == [i \in 0..(c.sets - 1) |-> 0]

\* stats = defaultdict(int): every counter reads 0 until it is incremented
NewStats ==
  [instructions |-> 0, hits |-> 0, misses |-> 0, invalidations |-> 0,
   avoided_invalidations |-> 0, suspect_lines |-> 0, suspect_events |-> 0,
   stall_cycles |-> 0]

\* Logger(path): a writer exists when a path was given
NewLogger(has_path) ==
  [writer |-> has_path, event_id |-> 0, closes |-> 0, file_open |-> has_path]

\* Logger.close
close(lg) == [lg EXCEPT !.closes = @ + 1, !.file_open = FALSE]

\* the state of run_trace once cache, stats and logger are constructed, in a
\* run whose geometry is one of geoms and that is given a path for the log
InitOn(geoms) ==
  /\ cfg \in Configs(geoms)
  /\ lines = NewLines(cfg)
  /\ repl_idx = NewReplIdx(cfg)
  /\ stats = NewStats
  /\ logger = NewLogger(TRUE)
  /\ pc = "open"
  /\ rec = [access |-> NoAccess, hit |-> FALSE, detect |-> FALSE,
            charged |-> FALSE]
  /\ hist = [alt |-> TRUE, first |-> NoAccess, second |-> NoAccess, seen |-> {},
             charging |-> 0]

Init == InitOn(SmallGeometries)

\* a run with the default geometry
InitDefault == InitOn({DefaultGeometry})

\* a long run of two cores on a cache of a single line
InitLong == InitOn({LongGeometry})

\* hist after the access a: seen is the set of cores that issued an access;
\* charging is the number of accesses that took a charging branch (DispatchOn
\* counts it);
\* alt says that the accesses so far are writes of two distinct cores that
\* take turns, each to its own word of one and the same line (first and
\* second are then the two records that alternate).
SameLineOtherWord(c, a, b) ==
  /\ index_tag(c, a[3])[2] = index_tag(c, b[3])[2]
  /\ word_idx_of(c, a[3]) # word_idx_of(c, b[3])

NextHist(h, c, n, a) ==
  LET ok == /\ h.alt
            /\ a[2]
            /\ n = 1 => (h.first[1] # a[1] /\ SameLineOtherWord(c, h.first, a))
            /\ (n >= 2 /\ n % 2 = 0) => a = h.first
            /\ (n >= 2 /\ n % 2 = 1) => a = h.second
  IN  [alt |-> ok,
       first |-> IF ~ok THEN NoAccess ELSE IF n = 0 THEN a ELSE h.first,
       second |-> IF ~ok THEN NoAccess ELSE IF n = 1 THEN a ELSE h.second,
       seen |-> h.seen \cup {a[1]},
       charging |-> h.charging]

\* run_trace: open(trace_path) succeeds
OpenTrace ==
  /\ pc = "open"
  /\ pc' = "loop"
  /\ UNCHANGED <<cfg, lines, repl_idx, stats, logger, rec, hist>>

\* run_trace: open(trace_path) raises; the exception leaves run_trace
OpenFails ==
  /\ pc = "open"
  /\ pc' = "aborted"
  /\ UNCHANGED <<cfg, lines, repl_idx, stats, logger, rec, hist>>

\* run_trace: one iteration of the loop on a blank line or a comment:
\* nothing changes
SkipLineOn(line) ==
  /\ pc = "loop"
  /\ Skipped(line)
  /\ UNCHANGED vars

\* run_trace: one iteration of the loop on a line whose parsing raises; the
\* exception leaves the loop and run_trace, nothing after the loop runs
ParseFailsOn(line) ==
  /\ pc = "loop"
  /\ ~Skipped(line)
  /\ Parse(line).status = "error"
  /\ pc' = "aborted"
  /\ UNCHANGED <<cfg, lines, repl_idx, stats, logger, rec, hist>>

\* run_trace: one iteration of the loop on a line that parses: the access,
\* then the instruction count and the hit latency
DispatchOn(line) ==
  /\ pc = "loop"
  /\ stats.instructions < TraceBound(cfg)
  /\ ~Skipped(line)
  /\ Parse(line).status = "ok"
  /\ LET p == Parse(line)
         a == <<p.core, p.is_write, p.addr>>
     IN  \E m \in {access([lines |-> lines, repl_idx |-> repl_idx,
                           stats |-> stats, logger |-> logger],
                          cfg, p.core, p.is_write, p.addr)} :
         /\ lines' = m.lines
         /\ repl_idx' = m.repl_idx
         /\ stats' = [m.stats EXCEPT !.instructions = @ + 1,
                                     !.stall_cycles = @ + cfg.hit_latency]
         /\ logger' = m.logger
         /\ rec' = [access |-> a, hit |-> m.hit, detect |-> m.detect,
                    charged |-> m.charged]
         /\ hist' = [NextHist(hist, cfg, stats.instructions, a) EXCEPT
                       !.charging = IF m.charged THEN @ + 1 ELSE @]
  /\ UNCHANGED <<cfg, pc>>

\* run_trace: the body of the loop on the line read from the trace file
ReadLine(line) == SkipLineOn(line) \/ ParseFailsOn(line) \/ DispatchOn(line)

SkipLine == \E line \in TraceLines(cfg) : SkipLineOn(line)

ParseFails == \E line \in TraceLines(cfg) : ParseFailsOn(line)

Dispatch == \E line \in TraceLines(cfg) : DispatchOn(line)

\* the same on a trace of PingPongLines
DispatchLong == \E line \in PingPongLines(cfg) : DispatchOn(line)

\* run_trace: the trace is exhausted; the logger is closed
EndOfTrace ==
  /\ pc = "loop"
  /\ logger' = close(logger)
  /\ pc' = "done"
  /\ UNCHANGED <<cfg, lines, repl_idx, stats, rec, hist>>

Next ==
  \/ OpenTrace
  \/ OpenFails
  \/ SkipLine
  \/ ParseFails
  \/ Dispatch
  \/ EndOfTrace

Spec == Init /\ [][Next]_vars

\* the runs with the default geometry
SpecDefault == InitDefault /\ [][Next]_vars

\* the long runs: a trace file that opens and holds records of PingPongLines
NextLong ==
  \/ OpenTrace
  \/ DispatchLong
  \/ EndOfTrace

SpecLong == InitLong /\ [][NextLong]_vars

\* ------------------------------------------------------------- properties
\* the step dispatches a record to Cache.access (rec' describes it)
Dispatched == stats'.instructions = stats.instructions + 1

\* the lines that hold some address
FilledLines ==
  { iw \in { <<i, w>> : i \in DOMAIN lines, w \in 0..(cfg.assoc - 1) } :
      lines[iw[1]][iw[2]].tag # -1 }

\* the lines marked suspect
SuspectLines ==
  { iw \in { <<i, w>> : i \in DOMAIN lines, w \in 0..(cfg.assoc - 1) } :
      lines[iw[1]][iw[2]].fs_suspect }

\* the valid line that holds addr is marked suspect
SuspectAt(addr) ==
  LET it == index_tag(cfg, addr)
  IN  \E w \in HitWays(lines, cfg, it[1], it[2]) : lines[it[1]][w].fs_suspect

\* C1: after every record, hits + misses == instructions
C1_HitsPlusMisses == stats.hits + stats.misses = stats.instructions

\* C1 witness: a run that had hits and misses
C1_Witness == stats.hits >= 1 /\ stats.misses >= 2 /\ stats.instructions = 3

\* C2: on every access on which the detector runs against a valid line,
\* exactly one of invalidations / avoided_invalidations strictly increases
\* and the other is unchanged
C2_ExactlyOneCounter ==
  [][ (Dispatched /\ rec'.detect) =>
        \/ /\ stats'.invalidations > stats.invalidations
           /\ stats'.avoided_invalidations = stats.avoided_invalidations
        \/ /\ stats'.avoided_invalidations > stats.avoided_invalidations
           /\ stats'.invalidations = stats.invalidations ]_vars

\* C3: with mitigation on, in an alternation of writes of two cores to two
\* words of one line, every write to the line once it is suspect leaves
\* invalidations unchanged and increases avoided_invalidations
C3_SuspectWritesAvoided ==
  [][ (/\ Dispatched
       /\ hist'.alt
       /\ cfg.false_sharing_fix
       /\ SuspectAt(rec'.access[3])) =>
        /\ stats'.invalidations = stats.invalidations
        /\ stats'.avoided_invalidations > stats.avoided_invalidations ]_vars

\* C4: with mitigation off, in an alternation of writes of two cores to two
\* words of one line, every write after the first increases invalidations by
\* exactly 1
C4_AlternationInvalidates ==
  [][ (/\ Dispatched
       /\ hist'.alt
       /\ stats.instructions >= 1
       /\ ~cfg.false_sharing_fix) =>
        stats'.invalidations = stats.invalidations + 1 ]_vars

\* C4 witness: an alternation of three writes, mitigation off, the line
\* suspect by now
C4_Witness ==
  /\ hist.alt
  /\ stats.instructions >= 3
  /\ ~cfg.false_sharing_fix
  /\ SuspectAt(rec.access[3])
  /\ stats.invalidations = stats.instructions - 1

\* the operation of a record is a read or a write: R or W in either case
RecognizedOp(tok) == tok.kind = "alpha" /\ upper(tok).text \in {"R", "W"}

\* a record that is not `<core:int> <R|W> <address:int>`
Malformed(line) ==
  /\ ~Skipped(line)
  /\ ~ (/\ Len(line.parts) = 3
        /\ IntOk(line.parts[1])
        /\ RecognizedOp(line.parts[2])
        /\ Int0Ok(line.parts[3]))

\* C5: the loop body on a malformed record aborts the run and changes no
\* counter and no cache line
C5_MalformedAborts ==
  [][ \A line \in TraceLines(cfg) :
        (Malformed(line) /\ ReadLine(line)) =>
          /\ pc' = "aborted"
          /\ lines' = lines
          /\ repl_idx' = repl_idx
          /\ stats' = stats ]_vars

\* C6: when run_trace has ended, normally or by an exception, the logger has
\* been closed exactly once
C6_ClosedOnce == pc \in {"done", "aborted"} => logger.closes = 1

\* C7: while all accesses were issued by one core, invalidations == 0 and
\* suspect_events == 0
C7_SingleCore ==
  Cardinality(hist.seen) <= 1 =>
    stats.invalidations = 0 /\ stats.suspect_events = 0

\* C7 witness: one core has read and written, hit, and evicted a line it had
\* filled (more misses than lines in use)
C7_Witness ==
  /\ Cardinality(hist.seen) = 1
  /\ stats.hits >= 1
  /\ stats.misses > Cardinality(FilledLines)
  /\ \E iw \in FilledLines : lines[iw[1]][iw[2]].state = MODIFIED

\* C8: an access to an address of set i leaves the lines and the cursor of
\* every other set unchanged; with 64 sets and 64-byte lines the trace
\* `0 W 0x0`, `1 W 0x40` ends with misses == 2 and invalidations == 0
C8_OtherSetsUntouched ==
  [][ /\ Dispatched =>
           \A j \in DOMAIN lines \ {index_tag(cfg, rec'.access[3])[1]} :
             lines'[j] = lines[j] /\ repl_idx'[j] = repl_idx[j]
      /\ (/\ cfg.sets = 64 /\ cfg.line_bytes = 64
          /\ stats.instructions = 1 /\ rec.access = <<0, TRUE, 0>>
          /\ Dispatched /\ rec'.access = <<1, TRUE, 64>>) =>
           stats'.misses = 2 /\ stats'.invalidations = 0 ]_vars

\* C8 witness: the state after `0 W 0x0`, `1 W 0x40` with the default
\* geometry: sets 0 and 1 hold one line each, each owned by its writer
C8_Witness ==
  /\ cfg.sets = 64 /\ cfg.line_bytes = 64
  /\ stats.instructions = 2
  /\ rec.access = <<1, TRUE, 64>>
  /\ lines[0][0].tag = 0 /\ lines[0][0].state = MODIFIED
  /\ lines[0][0].owner = 0 /\ lines[0][0].last_word = 0
  /\ lines[1][0].tag = 1 /\ lines[1][0].state = MODIFIED
  /\ lines[1][0].owner = 1
  /\ repl_idx[0] = 1 /\ repl_idx[1] = 1 /\ repl_idx[2] = 0

\* C9: with mitigation disabled, avoided_invalidations == 0
C9_NoFixNoAvoided ==
  ~cfg.false_sharing_fix => stats.avoided_invalidations = 0

\* C9 witness: mitigation off and the last access was a conflicting access
\* to a line that is suspect, to another word than the line's last one was
C9_Witness ==
  /\ ~cfg.false_sharing_fix
  /\ rec.detect
  /\ SuspectAt(rec.access[3])
  /\ stats.suspect_lines >= 1
  /\ stats.invalidations >= 2

\* C10: suspect_lines equals the number of lines whose fs_suspect is true
C10_SuspectLinesCount == stats.suspect_lines = Cardinality(SuspectLines)

\* C10 witness: the last access missed and refilled a line that was marked
\* suspect under its previous address
C10_Witness ==
  /\ rec.access # NoAccess
  /\ ~rec.hit
  /\ SuspectAt(rec.access[3])
  /\ stats.suspect_lines = 1

\* every cache line of the run
AllLines ==
  { lines[i][w] : i \in DOMAIN lines, w \in 0..(cfg.assoc - 1) }

\* C11: for every cache line 0 <= fs_conf <= 3, for any trace and any
\* threshold: the counter saturates at 3 on increment, at 0 on decrement
C11_ConfInRange == \A line \in AllLines : line.fs_conf \in 0..3

\* C11 witness: a miss, then at least four accesses that each incremented
\* fs_conf of the one line: the last of them found it at 3
C11_Witness ==
  /\ stats.instructions >= 5
  /\ stats.suspect_events = stats.instructions - 1
  /\ \E line \in AllLines : line.fs_conf = 3

\* C12: for every cache line, once fs_suspect is true it stays true: no
\* access, hit or miss, and no replacement of the line sets it back to false
C12_SuspectStays ==
  [][ \A i \in DOMAIN lines : \A w \in 0..(cfg.assoc - 1) :
        lines[i][w].fs_suspect => lines'[i][w].fs_suspect ]_vars

\* C12 witness: the last access missed and replaced a line that was suspect;
\* the line now holds the new address for its requester alone and is suspect
C12_Witness ==
  /\ stats.instructions = 3
  /\ stats.misses = 2
  /\ ~rec.hit
  /\ \E line \in AllLines :
        /\ line.fs_suspect
        /\ line.tag = index_tag(cfg, rec.access[3])[2]
        /\ line.sharers = {rec.access[1]}
        /\ line.fs_conf >= 1

\* the set index of the address of the access the step dispatches
SetOfAccess == index_tag(cfg, rec'.access[3])[1]

\* C13: the replacement cursor of a set advances by one (modulo the
\* associativity) on every probe of that set, whether it hits or misses
C13_CursorEveryProbe ==
  [][ Dispatched =>
        repl_idx'[SetOfAccess] = (repl_idx[SetOfAccess] + 1) % cfg.assoc ]_vars

\* C13 as the code has it: the cursor of the set advances by one (modulo the
\* associativity) on a probe that misses and stays as it is on a probe that
\* hits
C13_CursorOnMissOnly ==
  [][ Dispatched =>
        repl_idx'[SetOfAccess] =
          IF rec'.hit THEN repl_idx[SetOfAccess]
          ELSE (repl_idx[SetOfAccess] + 1) % cfg.assoc ]_vars

\* C13 witness: in a set of two ways, a miss and then hits: the cursor is
\* at 1, where the miss left it
C13_Witness ==
  /\ cfg.assoc = 2
  /\ rec.hit
  /\ stats.misses = 1
  /\ stats.hits = 2
  /\ repl_idx[index_tag(cfg, rec.access[3])[1]] = 1

\* C14: after every access, every line in state Modified has a defined owner
\* and sharers == {owner}
C14_ModifiedSoleSharer ==
  \A line \in AllLines :
    line.state = MODIFIED =>
      line.owner # None /\ line.sharers = {line.owner}

\* the line a miss in the set of the dispatched access replaces, as it is
\* before the access
Victim == lines[SetOfAccess][repl_idx[SetOfAccess]]

\* C15: a miss whose victim was valid and owned by a core other than the
\* requester accounts for an invalidation: invalidations increases and
\* stall_cycles gains inv_latency, or avoided_invalidations increases
C15_MissChargesVictim ==
  [][ (/\ Dispatched
       /\ ~rec'.hit
       /\ Victim.state # INVALID
       /\ Victim.owner # None
       /\ Victim.owner # rec'.access[1]) =>
        \/ /\ stats'.invalidations > stats.invalidations
           /\ stats'.stall_cycles =
                stats.stall_cycles + cfg.hit_latency + cfg.miss_latency
                  + cfg.inv_latency
        \/ stats'.avoided_invalidations > stats.avoided_invalidations ]_vars

\* the dispatched access: its core, whether it writes, its word index
CoreOfAccess == rec'.access[1]
WriteAccess == rec'.access[2]
WordOfAccess == word_idx_of(cfg, rec'.access[3])

\* the way of the line the dispatched access hits
HitWay ==
  LET hw == HitWays(lines, cfg, SetOfAccess, index_tag(cfg, rec'.access[3])[2])
  IN  CHOOSE w \in hw : \A v \in hw : w <= v

\* the line the dispatched access hits, before and after the access
HitLine == lines[SetOfAccess][HitWay]
HitLineAfter == lines'[SetOfAccess][HitWay]

\* the step dispatches a conflicting access: a write hit on a line another
\* core owns, or a read hit on a line Modified by another core
ConflictHit ==
  /\ Dispatched
  /\ rec'.hit
  /\ HitLine.owner # CoreOfAccess
  /\ WriteAccess \/ HitLine.state = MODIFIED

\* what a conflicting access adds to invalidations when it is charged
ChargeCount ==
  IF WriteAccess THEN Cardinality(HitLine.sharers \ {CoreOfAccess}) ELSE 1

\* C16: whenever the suppression rule applies (mitigation on, line suspect,
\* word differs from last_word), on a write hit and on a read hit of a
\* remotely Modified line, sharers after the access equals sharers before,
\* and avoided_invalidations grows by the count that would otherwise have
\* been added to invalidations
C16_SuppressedKeepsSharers ==
  [][ (/\ ConflictHit
       /\ cfg.false_sharing_fix
       /\ HitLine.fs_suspect
       /\ HitLine.last_word # WordOfAccess) =>
        /\ HitLineAfter.sharers = HitLine.sharers
        /\ stats'.avoided_invalidations =
             stats.avoided_invalidations + ChargeCount ]_vars

\* C16 as the code has it: a suppressed write hit leaves sharers as they
\* were, a suppressed read hit of a remotely Modified line adds the reader
\* to them and removes none; avoided_invalidations grows by the count that
\* would otherwise have been added to invalidations, which stays as it is
C16_SuppressedSharers ==
  [][ (/\ ConflictHit
       /\ cfg.false_sharing_fix
       /\ HitLineAfter.fs_suspect
       /\ HitLine.last_word # WordOfAccess) =>
        /\ HitLineAfter.sharers =
             IF WriteAccess THEN HitLine.sharers
             ELSE HitLine.sharers \cup {CoreOfAccess}
        /\ stats'.avoided_invalidations =
             stats.avoided_invalidations + ChargeCount
        /\ stats'.invalidations = stats.invalidations ]_vars

\* C16 witness: mitigation on, the last access was a read hit of a remotely
\* Modified line that was suppressed (no invalidation was ever charged); the
\* reader is now one of at least two sharers and not the owner
C16_Witness ==
  /\ cfg.false_sharing_fix
  /\ rec.access # NoAccess
  /\ rec.hit /\ rec.detect /\ ~rec.access[2]
  /\ stats.invalidations = 0
  /\ stats.avoided_invalidations >= 1
  /\ \E line \in AllLines :
        /\ line.state = SHARED
        /\ line.fs_suspect
        /\ rec.access[1] \in line.sharers
        /\ line.owner # rec.access[1]
        /\ Cardinality(line.sharers) >= 2

\* C17: on a read hit of an Exclusive line, the line becomes Shared only
\* when it has at least two sharers after the read; a read hit by the core
\* that is its sole sharer leaves it Exclusive
C17_ExclusiveDowngrade ==
  [][ (/\ Dispatched
       /\ rec'.hit
       /\ ~WriteAccess
       /\ HitLine.state = EXCLUSIVE) =>
        /\ HitLineAfter.state = SHARED =>
             Cardinality(HitLineAfter.sharers) >= 2
        /\ HitLine.sharers = {CoreOfAccess} =>
             HitLineAfter.state = EXCLUSIVE ]_vars

\* the dispatched access took the suppressed branch: no inv_latency stall, no
\* invalidation counted
WasSuppressed ==
  /\ stats'.stall_cycles = stats.stall_cycles + cfg.hit_latency
  /\ stats'.invalidations = stats.invalidations

\* the dispatched access took the charging branch: the inv_latency stall, no
\* invalidation counted as avoided
WasCharged ==
  /\ stats'.stall_cycles =
       stats.stall_cycles + cfg.hit_latency + cfg.inv_latency
  /\ stats'.avoided_invalidations = stats.avoided_invalidations

\* C18: a conflicting access is suppressed exactly when mitigation is on,
\* the line was marked suspect already when the access arrived (before the
\* access's own detector step) and the requester's word differs from the
\* line's last_word; every other conflicting access is charged
C18_SuppressedIffSuspectBefore ==
  [][ ConflictHit =>
        IF /\ cfg.false_sharing_fix
           /\ HitLine.fs_suspect
           /\ HitLine.last_word # WordOfAccess
        THEN WasSuppressed
        ELSE WasCharged ]_vars

\* C18 as the code has it: a conflicting access is suppressed exactly when
\* mitigation is on, the line is marked suspect once the access's own
\* detector step has run, and the requester's word differs from the line's
\* last_word; every other conflicting access is charged
C18_SuppressedIffSuspectAfter ==
  [][ ConflictHit =>
        IF /\ cfg.false_sharing_fix
           /\ HitLineAfter.fs_suspect
           /\ HitLine.last_word # WordOfAccess
        THEN WasSuppressed
        ELSE WasCharged ]_vars

\* C18 witness: mitigation on, threshold 2, a miss and two conflicting
\* accesses: the first was charged, the second marked the line suspect and
\* was itself suppressed
C18_Witness ==
  /\ cfg.false_sharing_fix
  /\ cfg.fs_threshold = 2
  /\ stats.instructions = 3
  /\ rec.detect
  /\ stats.suspect_events = 2
  /\ stats.suspect_lines = 1
  /\ stats.invalidations = 1
  /\ stats.avoided_invalidations = 1
  /\ stats.stall_cycles = 3 * cfg.hit_latency + cfg.miss_latency + cfg.inv_latency

\* C19: after an access by core c to word w of a line, last_writer_core == c
\* and last_word == w if the access was a write or made c the owner of the
\* line (a miss fills the line for c; on a hit, c was not the owner before
\* and is the owner after); after any other access, a read hit by the core
\* that owns the line already included, both fields are unchanged
C19_MetaOnWriteOrTransfer ==
  [][ Dispatched =>
        IF ~rec'.hit
        THEN /\ lines'[SetOfAccess][repl_idx[SetOfAccess]].last_writer_core =
                  CoreOfAccess
             /\ lines'[SetOfAccess][repl_idx[SetOfAccess]].last_word =
                  WordOfAccess
        ELSE IF \/ WriteAccess
                \/ /\ HitLine.owner # CoreOfAccess
                   /\ HitLineAfter.owner = CoreOfAccess
        THEN /\ HitLineAfter.last_writer_core = CoreOfAccess
             /\ HitLineAfter.last_word = WordOfAccess
        ELSE /\ HitLineAfter.last_writer_core = HitLine.last_writer_core
             /\ HitLineAfter.last_word = HitLine.last_word ]_vars

\* C20: after each record, stall_cycles == hit_latency * instructions
\* + miss_latency * misses + inv_latency * K, K the number of accesses so far
\* that took a charging branch: inv_latency is added once per charging
\* access, however many sharers it invalidated, and never by a suppressed
\* conflict or a plain hit
C20_StallCycles ==
  stats.stall_cycles =
    cfg.hit_latency * stats.instructions
      + cfg.miss_latency * stats.misses
      + cfg.inv_latency * hist.charging

\* C20 witness: a miss, a hit without conflict and one charging write hit
\* that invalidated two sharers
C20_Witness ==
  /\ hist.charging = 1
  /\ stats.invalidations = 2
  /\ stats.misses = 1
  /\ stats.hits = 2
  /\ stats.avoided_invalidations = 0
  /\ rec.charged

====
